---- MODULE Spec2Model ----
(***************************************************************************)
(* Model of the cerberus directory-layout resolver (app/core/task/         *)
(* dir_info.py) and of the repair-tool lifecycle hooks analyse_output and  *)
(* save_artifacts (AbstractRepairTool.py, java/ARJA_E.py).                  *)
(*                                                                         *)
(* A path is a sequence of components; a component is a string.  The host  *)
(* filesystem is the pair (dirs, files): the set of paths that are         *)
(* directories and a function from the paths that are regular files to     *)
(* their content.  Paths inside a container live in the same pair below    *)
(* the component "@container".                                              *)
(***************************************************************************)
EXTENDS Naturals, Sequences, FiniteSets, TLC

VARIABLES
    dirs,     \* host and container directories: a set of paths
    files,    \* regular files: path -> content
    ro,       \* directories in which no entry may be created (permission denied)
    calls,    \* SpecLayout: the last two resolver calls of the single caller
    proc,     \* SpecRace, SpecRuns: per-worker position and locals
    ctx,      \* SpecArchive: the ToolRunContext of the one driver
    drv       \* SpecAnalyse: the driver analysed, what it reads and its RepairToolStats

vars == <<dirs, files, ro, calls, proc, ctx, drv>>

--------------------------------------------------------------------------
(* Bounds *)

\* number of hex characters of a digest (a real digest has 32 or more)
DigestLen == 9

(* Program constants *)

\* hash.hexdigest()[:8]
HashPrefixLen == 8

--------------------------------------------------------------------------
(* Input domains *)

Benchmark == "defects4j"
Subject == "Lang"
\* "1-t" is an ordinary bug whose folder is also bug "1"'s folder for tag "t"
Bugs == {"1", "1-t"}
Tags == {"", "t"}
TaskIds == {"arja-e"}
HexChars == {"4", "e"}
FixedHex == <<"a", "1", "b", "2", "c", "3", "d">>

\* digests a1b2c3d?...: they agree on the first 7 characters and vary after
Digests ==
    { FixedHex \o t : t \in [1..(DigestLen - Len(FixedHex)) -> HexChars] }

\* the digest of the end-to-end scenario: a1b2c3d4 followed by 4s
ScenarioDigest == FixedHex \o [i \in 1..(DigestLen - Len(FixedHex)) |-> "4"]

\* values.dir_benchmark, dir_experiments, dir_logs, dir_artifacts, dir_results
dir_benchmark == <<"benchmark">>
dir_experiments == <<"experiments">>
dir_logs == <<"logs">>
dir_artifacts == <<"artifacts">>
dir_results == <<"results">>
container_base_experiment == <<"@container", "experiment">>

--------------------------------------------------------------------------
(* Strings and paths *)

RECURSIVE Cat(_)
\* "".join(s) of a sequence of strings
Cat(s) == IF s = <<>> THEN "" ELSE Head(s) \o Cat(Tail(s))

NonEmpty(c) == c # ""

\* os.path.join(root, *comps): empty components add no component (a trailing
\* "" only adds the final separator)
Join(root, comps) == root \o SelectSeq(comps, NonEmpty)

Parent(p) == SubSeq(p, 1, Len(p) - 1)

IsPrefix(p, q) == Len(p) <= Len(q) /\ SubSeq(q, 1, Len(p)) = p

\* q lies strictly below p
Below(p, q) == IsPrefix(p, q) /\ p # q

--------------------------------------------------------------------------
(* Filesystem primitives *)

\* os.path.isdir
IsDir(p, D) == p = <<>> \/ p \in D

\* os.path.isfile
IsFile(p, F) == p \in DOMAIN F

\* os.path.exists
Exists(p, D, F) == IsDir(p, D) \/ IsFile(p, F)

RECURSIVE MkFrom(_, _, _, _, _, _)
\* os.makedirs from the k-th component on: every missing ancestor is made;
\* a regular file on the way, or a parent that denies creation, raises and
\* leaves what was made so far.
MkFrom(p, k, exist_ok, D, F, RO) ==
    IF k > Len(p) THEN [ok |-> TRUE, dirs |-> D]
    ELSE LET q == SubSeq(p, 1, k) IN
         IF q \in D
         THEN IF k = Len(p) /\ ~exist_ok
              THEN [ok |-> FALSE, dirs |-> D]
              ELSE MkFrom(p, k + 1, exist_ok, D, F, RO)
         ELSE IF q \in DOMAIN F \/ Parent(q) \in RO
              THEN [ok |-> FALSE, dirs |-> D]
              ELSE MkFrom(p, k + 1, exist_ok, D \cup {q}, F, RO)

\* os.makedirs(p, exist_ok=...)
MakeDirs(p, exist_ok, D, F, RO) == MkFrom(p, 1, exist_ok, D, F, RO)

\* the entries directly inside directory p
ListDir(p, D, F) == { q \in D \cup DOMAIN F : q # <<>> /\ Parent(q) = p }

\* the regular files anywhere below p, by their path relative to p
FilesUnder(p, F) ==
    { <<SubSeq(q, Len(p) + 1, Len(q)), F[q]>> : q \in { r \in DOMAIN F : Below(p, r) } }

--------------------------------------------------------------------------
(* dir_info.py *)

\* dir_path = join(benchmark_name, subject_name, bug_name, "")
DirPath(benchmark_name, subject_name, bug_name) ==
    Join(<<>>, <<benchmark_name, subject_name, bug_name, "">>)

\* dir_setup_extended: {benchmark_root}/{benchmark}/{subject}/{bug}-{tag}/
ShadowPath(benchmark_name, subject_name, bug_name, tag) ==
    dir_benchmark \o Join(<<>>, <<benchmark_name, subject_name, Cat(<<bug_name, "-", tag>>), "">>)

\* dir_setup_local before the tag is looked at
UntaggedPath(benchmark_name, subject_name, bug_name) ==
    dir_benchmark \o DirPath(benchmark_name, subject_name, bug_name)

SetupIgnoringTag(benchmark_name, subject_name, bug_name, tag, D, F) ==
    UntaggedPath(benchmark_name, subject_name, bug_name)

\* lines 25-31: the custom setup folder is used when the tag is set and the
\* folder exists (os.path.exists: a directory or a file)
SetupLocal(benchmark_name, subject_name, bug_name, tag, D, F) ==
    IF tag # "" /\ Exists(ShadowPath(benchmark_name, subject_name, bug_name, tag), D, F)
    THEN ShadowPath(benchmark_name, subject_name, bug_name, tag)
    ELSE UntaggedPath(benchmark_name, subject_name, bug_name)

\* lines 33-42 and 57-69: the role-to-path mapping
LocalRoles(benchmark_name, subject_name, bug_name, dir_setup_local) ==
    [ logs         |-> dir_logs \o DirPath(benchmark_name, subject_name, bug_name),
      artifacts    |-> dir_artifacts \o DirPath(benchmark_name, subject_name, bug_name),
      experiment   |-> dir_experiments \o DirPath(benchmark_name, subject_name, bug_name),
      setup        |-> dir_setup_local,
      base         |-> Join(dir_benchmark, <<benchmark_name, subject_name, "base">>),
      aux          |-> Join(dir_benchmark, <<benchmark_name, subject_name, ".aux">>),
      patches      |-> Join(dir_setup_local, <<"patches">>),
      localization |-> Join(dir_setup_local, <<"localization">>),
      selection    |-> Join(dir_setup_local, <<"selection">>),
      validation   |-> Join(dir_setup_local, <<"validation">>),
      bugs         |-> Join(dir_setup_local, <<"bugs">>) ]

\* lines 43-53: the directories materialized, in the order of the loop
EnsureList(info) ==
    << info.experiment, info.setup, info.aux, info.base, info.bugs,
       info.patches, info.localization, info.validation, info.selection >>

CreateDirNoExistOk(p, D, F, RO) == MakeDirs(p, FALSE, D, F, RO)

\* line 55: os.makedirs(directory, exist_ok=True)
CreateDir(p, D, F, RO) == MakeDirs(p, TRUE, D, F, RO)

EnsureDirNoExistOk(p, D, F, RO) == MakeDirs(p, FALSE, D, F, RO)

\* lines 54-55: if not os.path.isdir(directory): os.makedirs(directory, exist_ok=True)
EnsureDir(p, D, F, RO) ==
    IF IsDir(p, D) THEN [ok |-> TRUE, dirs |-> D] ELSE CreateDir(p, D, F, RO)

RECURSIVE EnsureAll(_, _, _, _)
\* the loop of lines 43-55: the first failure propagates out of the loop
EnsureAll(list, D, F, RO) ==
    IF list = <<>> THEN [ok |-> TRUE, dirs |-> D]
    ELSE LET r == EnsureDir(Head(list), D, F, RO) IN
         IF r.ok THEN EnsureAll(Tail(list), r.dirs, F, RO) ELSE r

\* generate_local_dir_info: ok = returned normally, info = the returned dict
generate_local_dir_info(benchmark_name, subject_name, bug_name, tag, D, F, RO) ==
    LET info == LocalRoles(benchmark_name, subject_name, bug_name,
                           SetupLocal(benchmark_name, subject_name, bug_name, tag, D, F))
        r == EnsureAll(EnsureList(info), D, F, RO)
    IN  [ok |-> r.ok, dirs |-> r.dirs, info |-> info]

DirNameWholeDigest(task_identifier, digest) ==
    Cat(<<task_identifier, "-", Cat(digest)>>)

\* line 80: f"{task_identifier}-{hash.hexdigest()[:8]}"
DirName(task_identifier, digest) ==
    Cat(<<task_identifier, "-", Cat(SubSeq(digest, 1, HashPrefixLen))>>)

\* lines 83-85: the three run directories, in the order of the loop of line 86
RunDirs(dir_name) ==
    << Join(dir_logs, <<dir_name>>), Join(dir_results, <<dir_name>>),
       Join(dir_artifacts, <<dir_name>>) >>

RECURSIVE MakeAll(_, _, _, _)
\* lines 86-87: os.makedirs(directory, exist_ok=True) for each run directory
MakeAll(list, D, F, RO) ==
    IF list = <<>> THEN [ok |-> TRUE, dirs |-> D]
    ELSE LET r == MakeDirs(Head(list), TRUE, D, F, RO) IN
         IF r.ok THEN MakeAll(Tail(list), r.dirs, F, RO) ELSE r

\* lines 89-91: logs and artifacts are overwritten, results is added
ToolRoles(base_info, dir_name) ==
    [ role \in DOMAIN base_info \cup {"results"} |->
        CASE role = "logs" -> Join(dir_logs, <<dir_name>>)
          [] role = "artifacts" -> Join(dir_artifacts, <<dir_name>>)
          [] role = "results" -> Join(dir_results, <<dir_name>>)
          [] OTHER -> base_info[role] ]

\* generate_local_tool_dir_info
generate_local_tool_dir_info(benchmark_name, subject_name, bug_name, digest, task_identifier, tag, D, F, RO) ==
    LET dir_name == DirName(task_identifier, digest)
        base == generate_local_dir_info(benchmark_name, subject_name, bug_name, tag, D, F, RO)
        r == MakeAll(RunDirs(dir_name), base.dirs, F, RO)
    IN  IF ~base.ok THEN [ok |-> FALSE, dirs |-> base.dirs, info |-> base.info]
        ELSE [ok |-> r.ok, dirs |-> r.dirs, info |-> ToolRoles(base.info, dir_name)]

ContainerDirInfoNoAux(benchmark_name, subject_name, bug_name) ==
    LET dir_exp_container ==
            container_base_experiment \o DirPath(benchmark_name, subject_name, bug_name)
    IN  [ logs       |-> <<"@container", "logs">>,
          artifacts  |-> <<"@container", "output">>,
          experiment |-> dir_exp_container,
          setup      |-> <<"@container", "setup">> \o DirPath(benchmark_name, subject_name, bug_name),
          base       |-> Join(dir_exp_container, <<"base">>) ]

\* generate_container_dir_info: the container sees /setup, /logs, /output and
\* values.container_base_experiment
generate_container_dir_info(benchmark_name, subject_name, bug_name) ==
    LET dir_exp_container ==
            container_base_experiment \o DirPath(benchmark_name, subject_name, bug_name)
    IN  [ logs       |-> <<"@container", "logs">>,
          artifacts  |-> <<"@container", "output">>,
          experiment |-> dir_exp_container,
          setup      |-> <<"@container", "setup">> \o DirPath(benchmark_name, subject_name, bug_name),
          base       |-> Join(dir_exp_container, <<"base">>),
          aux        |-> Join(dir_exp_container, <<".aux">>) ]

\* update_dir_info: an instrumentation path under both setup roots
\* (tool_name.lower() of a lower-case name is the name)
update_dir_info(dir_info, tool_name) ==
    [ local     |-> [ role \in DOMAIN dir_info.local \cup {"instrumentation"} |->
                        IF role = "instrumentation"
                        THEN Join(dir_info.local.setup, <<tool_name>>)
                        ELSE dir_info.local[role] ],
      container |-> [ role \in DOMAIN dir_info.container \cup {"instrumentation"} |->
                        IF role = "instrumentation"
                        THEN Join(dir_info.container.setup, <<tool_name>>)
                        ELSE dir_info.container[role] ] ]

\* generate_dir_info / generate_tool_dir_info: the two namespaces side by side;
\* digest = <<>> stands for the call without a tool (generate_dir_info)
generate_dir_info(benchmark_name, subject_name, bug_name, tag, D, F, RO) ==
    LET l == generate_local_dir_info(benchmark_name, subject_name, bug_name, tag, D, F, RO)
    IN  [ ok |-> l.ok, dirs |-> l.dirs,
          info |-> [ local |-> l.info,
                     container |-> generate_container_dir_info(benchmark_name, subject_name, bug_name) ] ]

generate_tool_dir_info(benchmark_name, subject_name, bug_name, digest, task_identifier, tag, D, F, RO) ==
    LET l == generate_local_tool_dir_info(benchmark_name, subject_name, bug_name, digest,
                                          task_identifier, tag, D, F, RO)
    IN  [ ok |-> l.ok, dirs |-> l.dirs,
          info |-> [ local |-> l.info,
                     container |-> generate_container_dir_info(benchmark_name, subject_name, bug_name) ] ]

--------------------------------------------------------------------------
(* The tool run, as far as it touches the host layout *)

\* AbstractTool binds dir_output to the layout's artifacts role and the log
\* to a file of the logs role
dir_output(local) == local.artifacts
log_output_path(local) == Join(local.logs, <<"arja_e-output.log">>)

\* ARJA_E.invoke: mkdir {dir_output}/localization, the spectra and tests
\* files, and the tool's combined output in log_output_path
InvokeDirs(local) == { Join(dir_output(local), <<"localization">>) }
InvokeFiles(local) ==
    (Join(dir_output(local), <<"localization", "spectra">>) :> "spectra")
    @@ (Join(dir_output(local), <<"localization", "tests">>) :> "tests")
    @@ (log_output_path(local) :> "log")

--------------------------------------------------------------------------
(* SpecLayout: one caller resolving layouts, one call after the other *)

NoInfo == [none |-> <<>>]
NoCall ==
    [ op |-> "none", bug |-> "", tag |-> "", digest |-> <<>>, task |-> "",
      ok |-> FALSE, base |-> NoInfo, info |-> [local |-> NoInfo, container |-> NoInfo],
      shadowWasDir |-> FALSE, updated |-> FALSE ]

Prefixes(p) == { SubSeq(p, 1, k) : k \in 1..Len(p) }

\* filesystems the resolver may find: empty; a role path occupied by a regular
\* file; the shadow path occupied by a regular file; a read-only experiment root
InitFS ==
    { [dirs |-> {}, files |-> <<>>, ro |-> {}],
      [dirs |-> Prefixes(UntaggedPath(Benchmark, Subject, "1")),
       files |-> (Join(UntaggedPath(Benchmark, Subject, "1"), <<"bugs">>) :> "x"),
       ro |-> {}],
      [dirs |-> Prefixes(Parent(ShadowPath(Benchmark, Subject, "1", "t"))),
       files |-> (ShadowPath(Benchmark, Subject, "1", "t") :> "x"),
       ro |-> {}],
      [dirs |-> {dir_experiments}, files |-> <<>>, ro |-> {dir_experiments}] }

IdleProc == [w \in {} |-> 0]
IdleCtx == [none |-> TRUE]
IdleDrv == [none |-> TRUE]
\* fresh: nothing touched the filesystem since the last call; quiet: nothing
\* touched it between the last two calls
IdleCalls == [prev |-> NoCall, last |-> NoCall, quiet |-> TRUE, fresh |-> TRUE]

InitLayout ==
    /\ \E fs \in InitFS : dirs = fs.dirs /\ files = fs.files /\ ro = fs.ro
    /\ calls = IdleCalls
    /\ proc = IdleProc /\ ctx = IdleCtx /\ drv = IdleDrv

\* the caller resolves a layout without a tool
GenerateDirInfo(bug, tag) ==
    LET r == generate_dir_info(Benchmark, Subject, bug, tag, dirs, files, ro)
        b == generate_local_dir_info(Benchmark, Subject, bug, tag, dirs, files, ro)
    IN  /\ dirs' = r.dirs
        /\ calls' = [ prev |-> calls.last,
                      last |-> [ op |-> "dir", bug |-> bug, tag |-> tag, digest |-> <<>>,
                                 task |-> "", ok |-> r.ok,
                                 base |-> IF r.ok THEN b.info ELSE NoInfo,
                                 info |-> IF r.ok THEN r.info ELSE NoCall.info,
                                 shadowWasDir |->
                                     tag # "" /\ ShadowPath(Benchmark, Subject, bug, tag) \in dirs,
                                 updated |-> FALSE ],
                      quiet |-> calls.fresh, fresh |-> TRUE ]
        /\ UNCHANGED <<files, ro, proc, ctx, drv>>

\* the caller resolves the layout of one tool run
GenerateToolDirInfo(bug, tag, digest, task) ==
    LET r == generate_tool_dir_info(Benchmark, Subject, bug, digest, task, tag, dirs, files, ro)
        b == generate_local_dir_info(Benchmark, Subject, bug, tag, dirs, files, ro)
    IN  /\ dirs' = r.dirs
        /\ calls' = [ prev |-> calls.last,
                      last |-> [ op |-> "tool", bug |-> bug, tag |-> tag, digest |-> digest,
                                 task |-> task, ok |-> r.ok,
                                 base |-> IF r.ok THEN b.info ELSE NoInfo,
                                 info |-> IF r.ok THEN r.info ELSE NoCall.info,
                                 shadowWasDir |->
                                     tag # "" /\ ShadowPath(Benchmark, Subject, bug, tag) \in dirs,
                                 updated |-> FALSE ],
                      quiet |-> calls.fresh, fresh |-> TRUE ]
        /\ UNCHANGED <<files, ro, proc, ctx, drv>>

\* update_dir_info on the layout just resolved
UpdateDirInfo(tool_name) ==
    /\ calls.last.ok /\ ~calls.last.updated
    /\ calls' = [calls EXCEPT !.last.info = update_dir_info(@, tool_name),
                              !.last.updated = TRUE]
    /\ UNCHANGED <<dirs, files, ro, proc, ctx, drv>>

\* the tool of the run just resolved runs and leaves its output
Invoke ==
    /\ calls.last.op = "tool" /\ calls.last.ok
    /\ dirs' = dirs \cup InvokeDirs(calls.last.info.local)
    /\ files' = InvokeFiles(calls.last.info.local) @@ files
    /\ calls' = [calls EXCEPT !.fresh = FALSE]
    /\ UNCHANGED <<ro, proc, ctx, drv>>

\* somebody adds a custom setup folder for a tag between two runs
AddTagFolder(bug, tag) ==
    /\ tag # ""
    /\ ~Exists(ShadowPath(Benchmark, Subject, bug, tag), dirs, files)
    /\ \A q \in Prefixes(ShadowPath(Benchmark, Subject, bug, tag)) : q \notin DOMAIN files
    /\ dirs' = dirs \cup Prefixes(ShadowPath(Benchmark, Subject, bug, tag))
    /\ calls' = [calls EXCEPT !.fresh = FALSE]
    /\ UNCHANGED <<files, ro, proc, ctx, drv>>

NextLayout ==
    \/ \E bug \in Bugs, tag \in Tags : GenerateDirInfo(bug, tag)
    \/ \E bug \in Bugs, tag \in Tags, task \in TaskIds :
           GenerateToolDirInfo(bug, tag, ScenarioDigest, task)
    \/ UpdateDirInfo("arja_e")
    \/ \E bug \in Bugs, tag \in Tags : AddTagFolder(bug, tag)

SpecLayout == InitLayout /\ [][NextLayout]_vars

--------------------------------------------------------------------------
(* SpecRunDirs: one caller resolving tool runs that differ in their digest, *)
(* each run's tool leaving its output behind                                *)

NextRunDirs ==
    \/ \E digest \in Digests, task \in TaskIds :
           GenerateToolDirInfo("1", "", digest, task)
    \/ Invoke

SpecRunDirs == InitLayout /\ [][NextRunDirs]_vars

--------------------------------------------------------------------------
(* SpecRace: two workers run generate_local_dir_info for the same bug, their *)
(* filesystem calls interleaved.  A worker's steps are the tag test of line *)
(* 30, and for each directory of the loop the test of line 54 and the       *)
(* makedirs of line 55.                                                     *)

\* calls of the resolver per worker
MaxRaceCalls == 1

Workers == {1, 2}

IdleWorker ==
    [ pc |-> "idle", tag |-> "", info |-> NoInfo, i |-> 0, ret |-> NoInfo,
      tries |-> 0, raced |-> FALSE, n |-> 0 ]
\* tries: the makedirs calls made for directory i; raced: some makedirs of
\* the call found its directory made by the other worker after the test

\* InitFS, and the custom setup folder of tag "t" already in place
InitRaceFS ==
    InitFS \cup
    { [dirs |-> Prefixes(ShadowPath(Benchmark, Subject, "1", "t")), files |-> <<>>, ro |-> {}] }

InitRace ==
    /\ \E fs \in InitRaceFS : dirs = fs.dirs /\ files = fs.files /\ ro = fs.ro
    /\ proc = [w \in Workers |-> IdleWorker]
    /\ calls = IdleCalls /\ ctx = IdleCtx /\ drv = IdleDrv

\* lines 23-42: the worker enters the function, tests the tag folder and
\* composes the paths
RaceCall(w, tag) ==
    /\ proc[w].pc \in {"idle", "returned", "raised"}
    /\ proc[w].n < MaxRaceCalls
    /\ proc' = [proc EXCEPT ![w] =
                  [ pc |-> "isdir", tag |-> tag,
                    info |-> LocalRoles(Benchmark, Subject, "1",
                                        SetupLocal(Benchmark, Subject, "1", tag, dirs, files)),
                    i |-> 1, ret |-> NoInfo, tries |-> 0, raced |-> FALSE,
                    n |-> proc[w].n + 1 ]]
    /\ UNCHANGED <<dirs, files, ro, calls, ctx, drv>>

\* after directory i: on to the next one, or return the dict (lines 57-69)
Advance(p) ==
    IF p.i = Len(EnsureList(p.info))
    THEN [p EXCEPT !.pc = "returned", !.ret = p.info]
    ELSE [p EXCEPT !.pc = "isdir", !.i = p.i + 1, !.tries = 0]

\* line 54: if not os.path.isdir(directory)
RaceIsDir(w) ==
    /\ proc[w].pc = "isdir"
    /\ proc' = [proc EXCEPT ![w] =
                  IF IsDir(EnsureList(proc[w].info)[proc[w].i], dirs)
                  THEN Advance(proc[w])
                  ELSE [proc[w] EXCEPT !.pc = "makedirs"]]
    /\ UNCHANGED <<dirs, files, ro, calls, ctx, drv>>

\* line 55: os.makedirs(directory, exist_ok=True); an exception leaves the
\* function
RaceMakeDirs(w) ==
    /\ proc[w].pc = "makedirs"
    /\ LET target == EnsureList(proc[w].info)[proc[w].i]
           r == CreateDir(target, dirs, files, ro)
           counted == [proc[w] EXCEPT !.tries = @ + 1,
                                      !.raced = @ \/ target \in dirs]
       IN  /\ dirs' = r.dirs
           /\ proc' = [proc EXCEPT ![w] =
                         IF r.ok THEN Advance(counted) ELSE [counted EXCEPT !.pc = "raised"]]
    /\ UNCHANGED <<files, ro, calls, ctx, drv>>

NextRace ==
    \E w \in Workers :
        \/ \E tag \in Tags : RaceCall(w, tag)
        \/ RaceIsDir(w)
        \/ RaceMakeDirs(w)

SpecRace == InitRace /\ [][NextRace]_vars

--------------------------------------------------------------------------
(* AbstractRepairTool.save_artifacts *)

\* the path "" (dir_info.get("patches", "") without the key, dir_patch unset)
EmptyPath == <<"">>

ToolName == "arja_e"
PatchNames == {"1.txt", "2.txt"}

\* shutil.rmtree(p)
RmTree(p, D, F) ==
    [ dirs  |-> { q \in D : ~IsPrefix(p, q) },
      files |-> [ q \in { r \in DOMAIN F : ~IsPrefix(p, r) } |-> F[q] ] ]

\* cp -rf src dst: a missing source, a missing parent of dst, or a directory
\* copied onto a regular file fail and change nothing; a directory copied to
\* an existing directory lands inside it under its own name; otherwise dst
\* becomes the copy
CopyTree(src, dst, D, F) ==
    LET srcIsDir == src \in D
        srcIsFile == src \in DOMAIN F
        into == dst \in D
        target == IF into THEN dst \o <<src[Len(src)]>> ELSE dst
        Map(q) == target \o SubSeq(q, Len(src) + 1, Len(q))
        srcDirs == { q \in D : IsPrefix(src, q) }
        srcFiles == { q \in DOMAIN F : IsPrefix(src, q) }
        newDirs == { Map(q) : q \in srcDirs } \ DOMAIN F
        newFiles == { Map(q) : q \in srcFiles } \ D
        Origin(t) == CHOOSE q \in srcFiles : Map(q) = t
    IN  IF \/ ~(srcIsDir \/ srcIsFile)
           \/ ~IsDir(Parent(dst), D)
           \/ (srcIsDir /\ target \in DOMAIN F)
           \/ (srcIsFile /\ target \in D)
        THEN [dirs |-> D, files |-> F]
        ELSE [ dirs  |-> D \cup newDirs,
               files |-> [ t \in DOMAIN F \cup newFiles |->
                             IF t \in newFiles THEN F[Origin(t)] ELSE F[t] ] ]

\* container.copy_file_from_container(container_id, from, to): the Container
\* Operations copy a path of the container to the host, like a recursive copy
copy_file_from_container(container_id, from, to, D, F) == CopyTree(from, to, D, F)

\* AbstractTool.save_artifacts archives the output and logs folders; it leaves
\* the patches role alone
AbstractTool_save_artifacts(dir_info, D, F) == [dirs |-> D, files |-> F]

\* line 70: dir_info.get("patches", "")
BaseDirPatches(dir_info) ==
    IF "patches" \in DOMAIN dir_info THEN dir_info.patches ELSE EmptyPath

\* line 72: join(base_dir_patches, self.name)
DirPatches(dir_info, name) == Join(BaseDirPatches(dir_info), <<name>>)

RemoveOldSkipped(dir_patches, D, F) == [dirs |-> D, files |-> F]

\* lines 73-74: if os.path.isdir(dir_patches): shutil.rmtree(dir_patches)
RemoveOld(dir_patches, D, F) ==
    IF IsDir(dir_patches, D) THEN RmTree(dir_patches, D, F) ELSE [dirs |-> D, files |-> F]

\* lines 75-82: from the container when one is active, else cp -rf when the
\* patch directory is set
CopyPatches(container_id, dir_patch, dir_patches, D, F) ==
    IF container_id # ""
    THEN copy_file_from_container(container_id, dir_patch, dir_patches, D, F)
    ELSE IF dir_patch # EmptyPath
         THEN CopyTree(dir_patch, dir_patches, D, F)
         ELSE [dirs |-> D, files |-> F]

\* save_artifacts(self, dir_info), self = [name, container_id, dir_patch]
save_artifacts(self, dir_info, D, F) ==
    LET dir_patches == DirPatches(dir_info, self.name)
        removed == RemoveOld(dir_patches, D, F)
        copied == CopyPatches(self.container_id, self.dir_patch, dir_patches,
                              removed.dirs, removed.files)
    IN  IF IsDir(BaseDirPatches(dir_info), D)
        THEN AbstractTool_save_artifacts(dir_info, copied.dirs, copied.files)
        ELSE AbstractTool_save_artifacts(dir_info, D, F)

\* the tool (re)writes its patch directory: exactly the files `names`, each
\* with content `content`
WritePatches(dir_patch, names, content, D, F) ==
    LET old == RmTree(dir_patch, D, F)
        new == { dir_patch \o <<n>> : n \in names }
    IN  [ dirs  |-> old.dirs \cup Prefixes(dir_patch),
          files |-> [ q \in DOMAIN old.files \cup new |->
                        IF q \in new THEN content ELSE old.files[q] ] ]

--------------------------------------------------------------------------
(* SpecArchive: one driver archiving its patches, again and again, the tool *)
(* rewriting its patch directory in between                                 *)

\* save_artifacts calls of the driver
MaxSaves == 2

ScenarioLayout ==
    generate_tool_dir_info(Benchmark, Subject, "1", ScenarioDigest, "arja-e", "",
                           {}, <<>>, {})

\* the drivers: on the host with the patch directory below the run's output
\* folder, on the host with no patch directory set, and in a container
Drivers ==
    { [name |-> ToolName, container_id |-> "",
       dir_patch |-> Join(dir_output(ScenarioLayout.info.local), <<"patches">>)],
      [name |-> ToolName, container_id |-> "", dir_patch |-> EmptyPath],
      [name |-> ToolName, container_id |-> "c1",
       dir_patch |-> <<"@container", "output", "patches">>] }

\* the layouts handed to save_artifacts: the local namespace, or the container
\* namespace, which has no patches role
ArchiveLayouts == { ScenarioLayout.info.local, ScenarioLayout.info.container }

InitArchive ==
    /\ dirs = ScenarioLayout.dirs /\ files = <<>> /\ ro = {}
    /\ \E self \in Drivers, dir_info \in ArchiveLayouts :
           ctx = [ self |-> self, dir_info |-> dir_info, nsaves |-> 0,
                   justSaved |-> FALSE, firstArchive |-> {} ]
    /\ calls = IdleCalls /\ proc = IdleProc /\ drv = IdleDrv

\* the tool writes (or rewrites) its patch directory
ToolWritesPatches(names) ==
    /\ ctx.self.dir_patch # EmptyPath
    /\ LET r == WritePatches(ctx.self.dir_patch, names, "diff", dirs, files) IN
           /\ <<r.dirs, r.files>> # <<dirs, files>>
           /\ dirs' = r.dirs /\ files' = r.files
    /\ ctx' = [ctx EXCEPT !.justSaved = FALSE]
    /\ UNCHANGED <<ro, calls, proc, drv>>

DestOf(c) == DirPatches(c.dir_info, c.self.name)

\* the driver's save_artifacts
SaveArtifacts ==
    /\ ctx.nsaves < MaxSaves
    /\ LET r == save_artifacts(ctx.self, ctx.dir_info, dirs, files) IN
           /\ dirs' = r.dirs /\ files' = r.files
           /\ ctx' = [ctx EXCEPT !.nsaves = @ + 1, !.justSaved = TRUE,
                                 !.firstArchive =
                                     IF ctx.nsaves = 0
                                     THEN FilesUnder(DestOf(ctx), r.files)
                                     ELSE @]
    /\ UNCHANGED <<ro, calls, proc, drv>>

NextArchive ==
    \/ \E names \in SUBSET PatchNames : ToolWritesPatches(names)
    \/ SaveArtifacts

SpecArchive == InitArchive /\ [][NextArchive]_vars

--------------------------------------------------------------------------
(* SpecRuns: two workers, each one run of the same tool on the same bug and *)
(* tag, with its own digest: resolve the layout, run the tool, archive.     *)
(* The filesystem calls of save_artifacts interleave.                       *)

IdleRun ==
    [ pc |-> "idle", digest |-> <<>>, info |-> NoInfo, self |-> IdleCtx, patches |-> {} ]

InitRuns ==
    /\ dirs = {} /\ files = <<>> /\ ro = {}
    /\ proc = [w \in Workers |-> IdleRun]
    /\ calls = IdleCalls /\ ctx = IdleCtx /\ drv = IdleDrv

\* the content of the patches of worker w's run
PatchOf(w) == IF w = 1 THEN "diff of run 1" ELSE "diff of run 2"

\* generate_tool_dir_info for the run, and the driver bound to the layout
RunResolve(w, digest) ==
    /\ proc[w].pc = "idle"
    /\ LET r == generate_tool_dir_info(Benchmark, Subject, "1", digest, "arja-e", "",
                                       dirs, files, ro) IN
           /\ dirs' = r.dirs
           /\ proc' = [proc EXCEPT ![w] =
                         [ pc |-> "resolved", digest |-> digest, info |-> r.info.local,
                           self |-> [ name |-> ToolName, container_id |-> "",
                                      dir_patch |-> Join(dir_output(r.info.local), <<"patches">>) ],
                           patches |-> {} ]]
    /\ UNCHANGED <<files, ro, calls, ctx, drv>>

\* the tool runs and writes its patches and its log
RunInvoke(w, names) ==
    /\ proc[w].pc = "resolved"
    /\ names # {}
    /\ LET r == WritePatches(proc[w].self.dir_patch, names, PatchOf(w),
                             dirs \cup InvokeDirs(proc[w].info),
                             InvokeFiles(proc[w].info) @@ files) IN
           /\ dirs' = r.dirs /\ files' = r.files
           /\ proc' = [proc EXCEPT ![w].pc = "ran",
                                   ![w].patches = { <<(<<n>>), PatchOf(w)>> : n \in names }]
    /\ UNCHANGED <<ro, calls, ctx, drv>>

\* line 71: if os.path.isdir(base_dir_patches)
SaveTestBase(w) ==
    /\ proc[w].pc = "ran"
    /\ proc' = [proc EXCEPT ![w].pc =
                  IF IsDir(BaseDirPatches(proc[w].info), dirs) THEN "testdest" ELSE "done"]
    /\ UNCHANGED <<dirs, files, ro, calls, ctx, drv>>

\* line 73: if os.path.isdir(dir_patches)
SaveTestDest(w) ==
    /\ proc[w].pc = "testdest"
    /\ proc' = [proc EXCEPT ![w].pc =
                  IF IsDir(DirPatches(proc[w].info, proc[w].self.name), dirs)
                  THEN "rmtree" ELSE "copy"]
    /\ UNCHANGED <<dirs, files, ro, calls, ctx, drv>>

\* line 74: shutil.rmtree(dir_patches)
SaveRmTree(w) ==
    /\ proc[w].pc = "rmtree"
    /\ LET r == RmTree(DirPatches(proc[w].info, proc[w].self.name), dirs, files) IN
           dirs' = r.dirs /\ files' = r.files
    /\ proc' = [proc EXCEPT ![w].pc = "copy"]
    /\ UNCHANGED <<ro, calls, ctx, drv>>

\* lines 75-84: the copy, then the parent's save_artifacts
SaveCopy(w) ==
    /\ proc[w].pc = "copy"
    /\ LET c == CopyPatches(proc[w].self.container_id, proc[w].self.dir_patch,
                            DirPatches(proc[w].info, proc[w].self.name), dirs, files)
           r == AbstractTool_save_artifacts(proc[w].info, c.dirs, c.files) IN
           dirs' = r.dirs /\ files' = r.files
    /\ proc' = [proc EXCEPT ![w].pc = "done"]
    /\ UNCHANGED <<ro, calls, ctx, drv>>

NextRuns ==
    \E w \in Workers :
        \/ \E digest \in Digests : RunResolve(w, digest)
        \/ \E names \in SUBSET PatchNames : RunInvoke(w, names)
        \/ SaveTestBase(w)
        \/ SaveTestDest(w)
        \/ SaveRmTree(w)
        \/ SaveCopy(w)

SpecRuns == InitRuns /\ [][NextRuns]_vars

--------------------------------------------------------------------------
(* analyse_output *)

\* log lines of a run
MaxLogLines == 3

\* `sub in s` of Python, on sequences: characters of a file name, words of a
\* log line
In(sub, s) ==
    \E k \in 0..(Len(s) - Len(sub)) : SubSeq(s, k + 1, k + Len(sub)) = sub

\* a directory that does not exist, and one that holds the entries `names`
Absent == [exists |-> FALSE, names |-> {}]
Dir(names) == [exists |-> TRUE, names |-> names]

\* the log: no path set, a path that names no file, or a file of lines
Unset == [kind |-> "unset", lines |-> <<>>]
Missing == [kind |-> "missing", lines |-> <<>>]
LogFile(lines) == [kind |-> "file", lines |-> lines]

\* file names, character by character
Txt1 == <<"1", ".", "t", "x", "t">>
Txt2 == <<"2", ".", "t", "x", "t">>
Txt3 == <<"3", ".", "t", "x", "t">>
Diff1 == <<"1", ".", "d", "i", "f", "f">>
APatch == <<"a", ".", "p", "a", "t", "c", "h">>
PatchesName == <<"p", "a", "t", "c", "h", "e", "s">>
PatchValidName == <<"p", "a", "t", "c", "h", "-", "v", "a", "l", "i", "d">>
DotPatch == <<".", "p", "a", "t", "c", "h">>
DotTxt == <<".", "t", "x", "t">>

\* log lines, word by word
EnumMarker == <<"One", "fitness", "evaluation", "is", "finished">>
PlausibleMarker == <<"failed", "tests:", "0">>
EnumLine == <<"One", "fitness", "evaluation", "is", "finished", "\n">>
PlausibleLine == <<"Patch", "1", "failed", "tests:", "0", "\n">>
BothLine == <<"One", "fitness", "evaluation", "is", "finished", "failed", "tests:", "0", "\n">>
NoiseLine == <<"Seed", "0", "\n">>
LogLines == {EnumLine, PlausibleLine, BothLine, NoiseLine}

\* the logs a run may leave (a file possibly of no line)
LogStates ==
    {Unset, Missing} \cup { LogFile(l) : l \in UNION { [1..n -> LogLines] : n \in 0..MaxLogLines } }

\* {dir_output}/patches: absent, or the names of its files
PatchDirStates ==
    { Absent, Dir({}), Dir({Txt1, Txt2, Txt3}), Dir({Txt1, Diff1}), Dir({Diff1}) }

\* {dir_output}/patch-valid
ValidDirStates == { Absent, Dir({Txt1}) }

\* RepairToolStats() as constructed: counts at zero, no timestamps
FreshStats ==
    [ generated |-> 0, enumerations |-> 0, plausible |-> 0, non_compilable |-> 0,
      size |-> 0, timestamp_start |-> <<>>, timestamp_end |-> <<>> ]

\* AbstractTool.is_dir / list_dir / is_file: a missing directory lists as empty
is_dir(d) == d.exists
list_dir(d) == IF d.exists THEN d.names ELSE {}
is_file(log) == log.kind = "file"

\* the entries of dir_output: the two patch folders that exist and the files
\* directly inside it
OutputDir(t) ==
    LET names == (IF is_dir(t.patches) THEN {PatchesName} ELSE {})
                 \cup (IF is_dir(t.valid) THEN {PatchValidName} ELSE {})
                 \cup t.extra
    IN  IF names = {} THEN Absent ELSE Dir(names)

\* AbstractRepairTool.analyse_output: self.dir_patch is {dir_output}/patches
analyse_output_default(t, st) ==
    [ raised |-> FALSE,
      stats |-> IF is_dir(t.patches)
                THEN [st EXCEPT !.generated = Cardinality(list_dir(t.patches))]
                ELSE st ]

\* line.replace("\n", "")
StripNewline(line) == SelectSeq(line, LAMBDA w : w # "\n")

RECURSIVE CountLinesNoElif(_, _)
CountLinesNoElif(lines, acc) ==
    IF lines = <<>> THEN acc
    ELSE CountLinesNoElif(Tail(lines),
            [ enumerations |-> acc.enumerations
                                 + (IF In(EnumMarker, Head(lines)) THEN 1 ELSE 0),
              plausible |-> acc.plausible
                                 + (IF In(PlausibleMarker, Head(lines)) THEN 1 ELSE 0) ])

RECURSIVE CountLines(_, _)
\* ARJA_E lines 167-171: if "One fitness evaluation is finished" in line ...
\* elif "failed tests: 0" in line ...
CountLines(lines, acc) ==
    IF lines = <<>> THEN acc
    ELSE CountLines(Tail(lines),
            IF In(EnumMarker, Head(lines))
            THEN [acc EXCEPT !.enumerations = @ + 1]
            ELSE IF In(PlausibleMarker, Head(lines))
                 THEN [acc EXCEPT !.plausible = @ + 1]
                 ELSE acc)

\* ARJA_E.analyse_output
analyse_output_arja_e(t, st) ==
    LET st1 == [st EXCEPT !.generated =
                   Cardinality({ name \in list_dir(OutputDir(t)) : In(DotPatch, name) })]
        log_lines == t.log.lines
        counts == CountLines(log_lines, [enumerations |-> 0, plausible |-> 0])
        folder == IF t.use_valkyrie THEN t.valid ELSE t.patches
    IN  IF t.log.kind = "unset" \/ ~is_file(t.log)
        THEN [raised |-> FALSE, stats |-> st1]
        ELSE IF log_lines = <<>>
             THEN [raised |-> TRUE, stats |-> st1]
             ELSE [ raised |-> FALSE,
                    stats |-> [st1 EXCEPT
                        !.timestamp_start = StripNewline(log_lines[1]),
                        !.timestamp_end = StripNewline(log_lines[Len(log_lines)]),
                        !.generated = Cardinality({ x \in list_dir(folder) : In(DotTxt, x) }),
                        !.enumerations = counts.enumerations,
                        !.plausible = counts.plausible ] ]

--------------------------------------------------------------------------
(* SpecAnalyse: one driver, freshly constructed, analyses the output of its *)
(* run                                                                      *)

InitAnalyse ==
    /\ dirs = {} /\ files = <<>> /\ ro = {}
    /\ calls = IdleCalls /\ proc = IdleProc /\ ctx = IdleCtx
    /\ \E driver \in {"default", "arja_e"}, log \in LogStates, patches \in PatchDirStates,
          valid \in ValidDirStates, extra \in SUBSET {APatch}, use_valkyrie \in BOOLEAN :
           drv = [ driver |-> driver, log |-> log, patches |-> patches, valid |-> valid,
                   extra |-> extra, use_valkyrie |-> use_valkyrie,
                   stats |-> FreshStats, outcome |-> "none" ]

Analysed(r) ==
    drv' = [drv EXCEPT !.stats = r.stats,
                       !.outcome = IF r.raised THEN "raised" ELSE "returned"]

\* a driver that does not override analyse_output
AnalyseOutputDefault ==
    /\ drv.driver = "default" /\ drv.outcome = "none"
    /\ Analysed(analyse_output_default(drv, drv.stats))
    /\ UNCHANGED <<dirs, files, ro, calls, proc, ctx>>

\* the ARJA_E driver
AnalyseOutputARJA_E ==
    /\ drv.driver = "arja_e" /\ drv.outcome = "none"
    /\ Analysed(analyse_output_arja_e(drv, drv.stats))
    /\ UNCHANGED <<dirs, files, ro, calls, proc, ctx>>

NextAnalyse == AnalyseOutputDefault \/ AnalyseOutputARJA_E

SpecAnalyse == InitAnalyse /\ [][NextAnalyse]_vars

--------------------------------------------------------------------------
(* Claims about the resolver *)

SameArgs(a, b) == a.bug = b.bug /\ a.tag = b.tag

\* C1: two calls of generate_local_dir_info in succession with the same
\* (benchmark, subject, bug, tag) on the same filesystem: when the first
\* returns, the second returns too (it does not raise on the directories
\* that now exist) and returns the same role-to-path mapping.
C1_Idempotent ==
    ( /\ calls.prev.op # "none" /\ calls.last.op # "none"
      /\ SameArgs(calls.prev, calls.last)
      /\ calls.quiet
      /\ calls.prev.ok )
    => (calls.last.ok /\ calls.last.base = calls.prev.base)

\* a second call with a tag whose folder exists, after a first that returned
C1_Witness ==
    /\ calls.prev.op # "none" /\ calls.last.op # "none"
    /\ SameArgs(calls.prev, calls.last) /\ calls.quiet
    /\ calls.prev.ok /\ calls.last.ok
    /\ calls.last.tag # "" /\ calls.last.shadowWasDir
    /\ \A d \in { calls.last.base[r] : r \in {"experiment", "setup", "aux", "base", "bugs",
                    "patches", "localization", "validation", "selection"} } : d \in dirs

SetupChildren(info, root) ==
    /\ info.setup = root
    /\ \A r \in {"bugs", "localization", "patches", "validation", "selection"} :
           info[r] = root \o <<r>>

TagRule(c) ==
    (c.op # "none" /\ c.ok) =>
        IF c.shadowWasDir
        THEN SetupChildren(c.base, <<"benchmark", Benchmark, Subject, c.bug \o "-" \o c.tag>>)
        ELSE SetupChildren(c.base, <<"benchmark", Benchmark, Subject, c.bug>>)

\* C2: a returned layout has setup = the shadow directory {bug}-{tag} when the
\* tag is set and that directory existed at the call, and the untagged
\* directory otherwise; bugs, localization, patches, validation and selection
\* are direct children of setup.  The test is made at every call.
C2_TagOverride == TagRule(calls.prev) /\ TagRule(calls.last)

\* the same call twice, the tag folder added in between: untagged, then shadow
C2_Witness ==
    /\ calls.prev.ok /\ calls.last.ok
    /\ calls.prev.op # "none" /\ SameArgs(calls.prev, calls.last)
    /\ ~calls.prev.shadowWasDir /\ calls.last.shadowWasDir
    /\ calls.prev.base.setup # calls.last.base.setup

KeyRule(c) ==
    (c.op # "none" /\ c.ok) =>
        /\ DOMAIN c.info.container \subseteq DOMAIN c.info.local
        /\ DOMAIN c.info.local \ DOMAIN c.info.container =
               {"patches", "localization", "selection", "validation", "bugs"}
                 \cup (IF c.op = "tool" THEN {"results"} ELSE {})
        /\ c.updated => "instrumentation" \in DOMAIN c.info.container

\* C10 (amended): in every DirectoryInfo produced by generate_dir_info or
\* generate_tool_dir_info, also after update_dir_info, every role of the
\* container namespace is a role of the local namespace, and the roles of
\* the local namespace missing from the container namespace are exactly
\* patches, localization, selection, validation, bugs (and results for a
\* tool layout).
C10_ContainerRoles == KeyRule(calls.prev) /\ KeyRule(calls.last)

C10_Witness ==
    /\ calls.last.op = "tool" /\ calls.last.ok /\ calls.last.updated
    /\ calls.prev.op = "dir" /\ calls.prev.ok

OriginalKeyRule(c) ==
    (c.op # "none" /\ c.ok) =>
        \A role \in DOMAIN c.info.local \ {"results"} : role \in DOMAIN c.info.container

\* C10 as claimed: every role of the local namespace other than results is
\* a role of the container namespace.
C10_Original == OriginalKeyRule(calls.prev) /\ OriginalKeyRule(calls.last)

RunName(c) == c.info.local.results[Len(c.info.local.results)]

IsRun(c) == c.op = "tool" /\ c.ok

NameRule(c) ==
    IsRun(c) =>
        /\ RunName(c) = Cat(<<c.task, "-">> \o SubSeq(c.digest, 1, 8))
        /\ c.info.local.logs = <<"logs", RunName(c)>>
        /\ c.info.local.artifacts = <<"artifacts", RunName(c)>>
        /\ c.info.local.results = <<"results", RunName(c)>>

\* C3 (amended): the run-directory name is "{task_identifier}-{first 8 hex
\* characters of the digest}"; two calls with the same task_identifier have
\* the same run-directory name exactly when their digests agree on the
\* first 8 characters.
C3_RunDirName ==
    /\ NameRule(calls.prev) /\ NameRule(calls.last)
    /\ (IsRun(calls.prev) /\ IsRun(calls.last) /\ calls.prev.task = calls.last.task) =>
           ( RunName(calls.prev) = RunName(calls.last)
             <=> SubSeq(calls.prev.digest, 1, 8) = SubSeq(calls.last.digest, 1, 8) )

\* two runs whose digests differ within the first 8 characters
C3_Witness ==
    /\ IsRun(calls.prev) /\ IsRun(calls.last) /\ calls.prev.task = calls.last.task
    /\ calls.prev.digest # calls.last.digest
    /\ RunName(calls.prev) # RunName(calls.last)
    /\ RunName(calls.last) = "arja-e-a1b2c3d4"

\* C3 as claimed: the same task_identifier with different content hashes
\* gives different run-directory names.
C3_Original ==
    (IsRun(calls.prev) /\ IsRun(calls.last) /\ calls.prev.task = calls.last.task
       /\ calls.prev.digest # calls.last.digest)
    => RunName(calls.prev) # RunName(calls.last)

\* C4: immediately after generate_local_tool_dir_info returns, the run
\* directories of logs, artifacts and results exist and are empty.
C4_RunDirsEmpty ==
    (IsRun(calls.last) /\ calls.fresh) =>
        \A r \in {"logs", "artifacts", "results"} :
            /\ calls.last.info.local[r] \in dirs
            /\ ListDir(calls.last.info.local[r], dirs, files) = {}

MaterializedRoles ==
    {"experiment", "setup", "aux", "base", "bugs", "patches", "localization",
     "validation", "selection"}

\* p cannot be created: a regular file sits on the way, or a missing
\* component's parent denies creation
Blocked(p) ==
    \E k \in 1..Len(p) :
        \/ SubSeq(p, 1, k) \in DOMAIN files
        \/ SubSeq(p, 1, k) \notin dirs /\ SubSeq(p, 1, k - 1) \in ro

\* C9: whenever generate_local_dir_info has returned, each of the nine
\* materialized roles is an existing directory, also when two workers run it
\* for the same bug concurrently; a call that raised returned no layout, was
\* stopped by a directory that cannot be created, and no directory was
\* attempted twice.
C9_Materialized ==
    \A w \in Workers :
        /\ proc[w].pc = "returned" =>
               /\ proc[w].ret # NoInfo
               /\ \A r \in MaterializedRoles : proc[w].ret[r] \in dirs
        /\ proc[w].pc = "raised" =>
               /\ proc[w].ret = NoInfo
               /\ Blocked(EnsureList(proc[w].info)[proc[w].i])
        /\ proc[w].tries <= 1
        /\ (proc[w].pc \in {"isdir", "makedirs"} /\ proc[w].i > 1) =>
               \A k \in 1..(proc[w].i - 1) : EnsureList(proc[w].info)[k] \in dirs

\* a worker returned although the other worker created a directory between
\* its test and its makedirs
C9_Witness ==
    \E w \in Workers : proc[w].pc = "returned" /\ proc[w].raced

\* the files of the driver's current patch directory
CurrentPatchFiles ==
    IF ctx.self.dir_patch = EmptyPath THEN {} ELSE FilesUnder(ctx.self.dir_patch, files)

\* C5: when the layout's patches directory exists, then right after
\* save_artifacts (the first run or a later one, with or without a container)
\* patches/{tool_name} holds exactly the files of the tool's current patch
\* directory, directly inside it: nothing stale, nothing nested.
C5_ExactArchive ==
    (ctx.justSaved /\ IsDir(BaseDirPatches(ctx.dir_info), dirs)) =>
        /\ FilesUnder(DestOf(ctx), files) = CurrentPatchFiles
        /\ { q \in dirs : Below(DestOf(ctx), q) } = {}

\* a second save after the patch directory lost a file the first archive held
C5_Witness ==
    /\ ctx.justSaved /\ ctx.nsaves >= 2
    /\ IsDir(BaseDirPatches(ctx.dir_info), dirs)
    /\ FilesUnder(DestOf(ctx), files) # {}
    /\ ctx.firstArchive \ CurrentPatchFiles # {}

\* the two runs are told apart by their run directory
DistinctRuns ==
    /\ \A w \in Workers : proc[w].pc = "done"
    /\ proc[1].info.results # proc[2].info.results

\* C8: two runs of the same tool on the same bug and tag that differ in their
\* digest, run concurrently, both end with their own patch files archived in
\* patches/{tool_name}, intact and unmixed, and with their run directories'
\* patches in place.
C8_NoInterference ==
    DistinctRuns =>
        \A w \in Workers :
            /\ FilesUnder(proc[w].self.dir_patch, files) = proc[w].patches
            /\ FilesUnder(DirPatches(proc[w].info, proc[w].self.name), files) = proc[w].patches

LogIsFile == drv.log.kind = "file"

\* C6: analyse_output of either driver, with the log path unset or naming no
\* file, returns without raising; generated is the number of files of the
\* patch-output directory {dir_output}/patches when it exists and 0 when it
\* does not, and every other field of the stats is as it was.
C6_MissingLog ==
    (drv.outcome # "none" /\ ~LogIsFile) =>
        /\ drv.outcome = "returned"
        /\ drv.stats = [FreshStats EXCEPT !.generated =
                           IF drv.patches.exists THEN Cardinality(drv.patches.names) ELSE 0]

ArjaAnalysedLog ==
    drv.driver = "arja_e" /\ drv.outcome # "none" /\ LogIsFile /\ drv.log.lines # <<>>

CountedFolder == IF drv.use_valkyrie THEN drv.valid ELSE drv.patches

Scenario ==
    /\ drv.patches = Dir({Txt1, Txt2, Txt3}) /\ ~drv.use_valkyrie
    /\ Len(drv.log.lines) = 3
    /\ Cardinality({ k \in 1..3 : drv.log.lines[k] = EnumLine }) = 2
    /\ Cardinality({ k \in 1..3 : drv.log.lines[k] = PlausibleLine }) = 1

\* C7 (amended): ARJA_E.analyse_output on an existing non-empty log returns;
\* generated is the number of entries of {dir_output}/patches (of
\* {dir_output}/patch-valid when use_valkyrie is set) whose name contains
\* ".txt", enumerations the number of log lines containing "One fitness
\* evaluation is finished", plausible the number of log lines containing
\* "failed tests: 0" and not "One fitness evaluation is finished"; in the
\* scenario (three .txt files, two enumeration lines, one "failed tests: 0"
\* line) that is generated 3, enumerations 2, plausible 1.
C7_ArjaCounts ==
    ArjaAnalysedLog =>
        /\ drv.outcome = "returned"
        /\ drv.stats.generated =
               IF CountedFolder.exists
               THEN Cardinality({ x \in CountedFolder.names : In(DotTxt, x) })
               ELSE 0
        /\ drv.stats.enumerations =
               Cardinality({ k \in 1..Len(drv.log.lines) : In(EnumMarker, drv.log.lines[k]) })
        /\ drv.stats.plausible =
               Cardinality({ k \in 1..Len(drv.log.lines) :
                               In(PlausibleMarker, drv.log.lines[k]) /\ ~In(EnumMarker, drv.log.lines[k]) })
        /\ Scenario =>
               /\ drv.stats.generated = 3
               /\ drv.stats.enumerations = 2
               /\ drv.stats.plausible = 1

\* the scenario, analysed
C7_Witness ==
    /\ ArjaAnalysedLog /\ Scenario /\ drv.outcome = "returned"
    /\ drv.stats.generated = 3 /\ drv.stats.enumerations = 2 /\ drv.stats.plausible = 1

\* C7 as claimed: generated is the number N of files of the patch directory,
\* enumerations the number of lines containing "One fitness evaluation is
\* finished", plausible the number of lines containing "failed tests: 0".
C7_Original ==
    ArjaAnalysedLog =>
        /\ drv.stats.generated =
               IF drv.patches.exists THEN Cardinality(drv.patches.names) ELSE 0
        /\ drv.stats.enumerations =
               Cardinality({ k \in 1..Len(drv.log.lines) : In(EnumMarker, drv.log.lines[k]) })
        /\ drv.stats.plausible =
               Cardinality({ k \in 1..Len(drv.log.lines) : In(PlausibleMarker, drv.log.lines[k]) })

====
